---- MODULE Spec2Model ----
(***************************************************************************)
(* A model of the "emotion folding" scene: the camera preset controller,   *)
(* the bridge mechanism, the reunion of the two characters, the per-frame  *)
(* narrative-state poll and the interaction layer that drives them.        *)
(*                                                                         *)
(* Units.  Lengths are integers in hundredths of a scene unit (0.3 is 30,  *)
(* the point (-15, 8, 12) is [x |-> -1500, y |-> 800, z |-> 1200]).  Time  *)
(* is in units of 100 ms (a 2000 ms tween lasts 20).  The easing value     *)
(* 0.5 - 0.5*cos(pi*progress) is kept in thousandths.  A tween stores      *)
(* age = Date.now() - startTime instead of startTime; the clock advancing  *)
(* ages every tween that is in flight.                                     *)
(*                                                                         *)
(* Scope.  The 3D library is outside the model: camLookAt records the      *)
(* point of the last camera.lookAt call made by CameraManager, and the     *)
(* per-frame OrbitControls.update() of the library appears only through    *)
(* the camera positions a pointer drag can produce (OrbitDrag).            *)
(***************************************************************************)
EXTENDS Integers, Sequences, FiniteSets, TLC

(***************************************************************************)
(* Bounds of the model.                                                    *)
(***************************************************************************)
\* how many user commands (button clicks, camera drags) a run may contain
MaxUserOps == 3
\* how far one step of the clock advances Date.now(), in units of 100 ms
TickStep == 5

(***************************************************************************)
(* Program constants.                                                      *)
(***************************************************************************)
CameraDuration == 20
BridgeDuration == 10
CharacterDuration == 20
OrbitReenableDelay == 21
BridgeOffset == 30
MotherTargetX == -200
ChildTargetX == 200
TriggerThreshold == 300
DefaultThreshold == 200
ReunionDistance == 500
LookAheadDistance == 1000

Vec(x, y, z) == [x |-> x, y |-> y, z |-> z]

PresetNames == {"mother", "child", "emotional"}

presets ==
  [mother    |-> [position |-> Vec(-1500, 800, 1200), target |-> Vec(-1200, 100, 0)],
   child     |-> [position |-> Vec(1500, 600, 1000),  target |-> Vec(1200, 100, 0)],
   emotional |-> [position |-> Vec(0, 500, 2000),     target |-> Vec(0, 50, 0)]]

Origin == Vec(0, 0, 0)

\* where a fresh PerspectiveCamera looks: down the negative z axis
InitialLookAt == Vec(0, 0, -100)

LeftBridgeStart == Vec(-600, 50, 0)
RightBridgeStart == Vec(600, 50, 0)
MotherStart == Vec(-1200, 100, 0)
ChildStart == Vec(1200, 100, 0)

\* camera positions a drag of the pointer can leave the camera at: one within
\* the trigger threshold of the emotional preset and one far from it
OrbitPositions == {Vec(0, 500, 2100), Vec(0, 2000, 500)}

Min(a, b) == IF a < b THEN a ELSE b

Max(a, b) == IF a > b THEN a ELSE b

\* 1000 * (0.5 - 0.5*cos(pi*k/20)) rounded, for k = 0..20
EaseTable ==
  <<0, 6, 24, 54, 95, 146, 206, 273, 345, 422, 500,
    578, 655, 727, 794, 854, 905, 946, 976, 994, 1000>>

\* progress = Math.min(elapsed / duration, 1); 0.5 - 0.5 * Math.cos(progress * Math.PI)
EaseProgress(elapsed, duration) ==
  EaseTable[Min((elapsed * 20) \div duration, 20) + 1]

\* start + (target - start) * easeProgress
Lerp(a, b, e) == a + ((b - a) * e) \div 1000

\* THREE.Vector3.lerpVectors
LerpVectors(v1, v2, e) ==
  Vec(Lerp(v1.x, v2.x, e), Lerp(v1.y, v2.y, e), Lerp(v1.z, v2.z, e))

DistanceSq(a, b) ==
  (a.x - b.x) * (a.x - b.x) + (a.y - b.y) * (a.y - b.y) + (a.z - b.z) * (a.z - b.z)

\* the integer square root by bisection (lo*lo <= n < hi*hi), used for the
\* length of a direction vector
RECURSIVE ISqrtBetween(_, _, _)
ISqrtBetween(n, lo, hi) ==
  IF hi - lo <= 1 THEN lo
  ELSE LET mid == (lo + hi) \div 2
       IN IF mid * mid <= n THEN ISqrtBetween(n, mid, hi) ELSE ISqrtBetween(n, lo, mid)

ISqrt(n) == ISqrtBetween(n, 0, 40000)

(***************************************************************************)
(* State.                                                                  *)
(***************************************************************************)
VARIABLES
  camPos,         \* camera.position
  camLookAt,      \* the point the camera was last turned to (camera.lookAt)
  currentPreset,  \* CameraManager.currentPreset
  isAnimating,    \* CameraManager.isAnimating
  bridge,         \* SceneManager.bridge: left and right segment positions, isAligned
  mother,         \* SceneManager.mother: the mesh in the scene and its position
  child,          \* SceneManager.child
  loads,          \* the two model load requests: "pending", "resolved" or "none"
  raf,            \* the requestAnimationFrame callbacks, in registration order
  hasOrbit,       \* ControlsManager.orbitControls is not null
  orbitEnabled,   \* orbitControls.enabled
  timers,         \* remaining delays of the pending setTimeout re-enable callbacks
  currentState,   \* UIManager.currentState, the narrative state on display
  sceneState,     \* the sceneState object of the last App.animate call
  frameDue,       \* the clock has advanced since the last display frame
  budget,         \* number of user commands the run may still contain
  page,           \* the window: library flags, initApp's listener and timer, App
                  \* instances constructed, innerWidth and innerHeight, camera.aspect
  lastOp          \* the last operation performed and whether it took effect

vars ==
  <<camPos, camLookAt, currentPreset, isAnimating, bridge, mother, child, loads,
    raf, hasOrbit, orbitEnabled, timers, currentState, sceneState, frameDue,
    budget, page, lastOp>>

cameraVars == <<camPos, camLookAt, currentPreset, isAnimating>>

NoMesh == "none"

\* the objects that the handlers and the frame callbacks read and write
World ==
  [camPos |-> camPos, camLookAt |-> camLookAt, currentPreset |-> currentPreset,
   isAnimating |-> isAnimating,
   bridge |-> bridge, mother |-> mother, child |-> child,
   currentState |-> currentState, sceneState |-> sceneState]

(***************************************************************************)
(* Frame callbacks.  Each takes the callback record and the world, and     *)
(* gives the world it leaves and whether it asked for another frame.       *)
(***************************************************************************)

\* a requestAnimationFrame callback: the render loop or the closure of a tween
Callback(kind, obj, mesh, start, startTarget, target, targetLookAt) ==
  [kind |-> kind, obj |-> obj, mesh |-> mesh, start |-> start,
   startTarget |-> startTarget, target |-> target, targetLookAt |-> targetLookAt,
   age |-> 0]

Duration(cb) ==
  CASE cb.kind = "camera" -> CameraDuration
    [] cb.kind = "bridge" -> BridgeDuration
    [] cb.kind = "char"   -> CharacterDuration
    [] OTHER              -> 0

\* CameraManager.getCameraLookAt: the point 10 units ahead of the camera
GetCameraLookAt(pos, lookAt) ==
  LET dx == lookAt.x - pos.x
      dy == lookAt.y - pos.y
      dz == lookAt.z - pos.z
      len == ISqrt(dx * dx + dy * dy + dz * dz)
  IN IF len = 0
       THEN Vec(pos.x, pos.y, pos.z - LookAheadDistance)
       ELSE Vec(pos.x + (dx * LookAheadDistance) \div len,
                pos.y + (dy * LookAheadDistance) \div len,
                pos.z + (dz * LookAheadDistance) \div len)

\* the closure with the interpolation skipped on its last call
CameraAnimate_NoFinalWrite(cb, w) ==
  LET e == EaseProgress(cb.age, CameraDuration)
      moved == [w EXCEPT !.camPos = LerpVectors(cb.start, cb.target, e),
                         !.camLookAt = LerpVectors(cb.startTarget, cb.targetLookAt, e)]
  IN IF cb.age < CameraDuration
       THEN [w |-> moved, again |-> TRUE]
       ELSE [w |-> [w EXCEPT !.isAnimating = FALSE], again |-> FALSE]

\* the closure `animate` of CameraManager.animateToPosition
CameraAnimate(cb, w) ==
  LET e == EaseProgress(cb.age, CameraDuration)
      moved == [w EXCEPT !.camPos = LerpVectors(cb.start, cb.target, e),
                         !.camLookAt = LerpVectors(cb.startTarget, cb.targetLookAt, e)]
  IN IF cb.age < CameraDuration
       THEN [w |-> moved, again |-> TRUE]
       ELSE [w |-> [moved EXCEPT !.isAnimating = FALSE], again |-> FALSE]

\* the three guarded assignments of a segment or character tween: only the
\* coordinates the target names are written
ApplyTarget(pos, start, target, e) ==
  [x |-> IF "x" \in DOMAIN target THEN Lerp(start.x, target.x, e) ELSE pos.x,
   y |-> IF "y" \in DOMAIN target THEN Lerp(start.y, target.y, e) ELSE pos.y,
   z |-> IF "z" \in DOMAIN target THEN Lerp(start.z, target.z, e) ELSE pos.z]

\* the closure `animate` of SceneManager.animateBridgeSegment
BridgeAnimate_CarriesCharacters(cb, w) ==
  LET e == EaseProgress(cb.age, BridgeDuration)
      seg == ApplyTarget(w.bridge[cb.obj], cb.start, cb.target, e)
      who == IF cb.obj = "left" THEN "mother" ELSE "child"
  IN [w |-> [w EXCEPT !.bridge[cb.obj] = seg, ![who].position.z = seg.z],
      again |-> cb.age < BridgeDuration]

BridgeAnimate(cb, w) ==
  LET e == EaseProgress(cb.age, BridgeDuration)
      seg == ApplyTarget(w.bridge[cb.obj], cb.start, cb.target, e)
  IN [w |-> [w EXCEPT !.bridge[cb.obj] = seg], again |-> cb.age < BridgeDuration]

\* the closure asking for another frame whatever its progress
CharacterAnimate_NeverStops(cb, w) ==
  LET e == EaseProgress(cb.age, CharacterDuration)
      cur == w[cb.obj]
      moved == [cur EXCEPT !.position = ApplyTarget(cur.position, cb.start, cb.target, e)]
  IN [w |-> IF cur.mesh = cb.mesh THEN [w EXCEPT ![cb.obj] = moved] ELSE w,
      again |-> TRUE]

\* the closure `animate` of SceneManager.animateCharacter; it holds the mesh it
\* was started on, which is the one in the scene unless that was replaced
CharacterAnimate(cb, w) ==
  LET e == EaseProgress(cb.age, CharacterDuration)
      cur == w[cb.obj]
      moved == [cur EXCEPT !.position = ApplyTarget(cur.position, cb.start, cb.target, e)]
  IN [w |-> IF cur.mesh = cb.mesh THEN [w EXCEPT ![cb.obj] = moved] ELSE w,
      again |-> cb.age < CharacterDuration]

\* UIManager.updateStatus: the state on display (each state has its own pair
\* of texts, an unknown state shows the texts of 'searching')
UpdateStatus(state, w) == [w EXCEPT !.currentState = state]

\* updateFromSceneState with the alignment flag tested first
UpdateFromSceneState_AlignedFirst(ss, w) ==
  IF ss.bridgeAligned THEN UpdateStatus("aligning", w)
  ELSE IF ss.motherChildReunited THEN UpdateStatus("reunited", w)
  ELSE IF ss.bridgeTriggered THEN UpdateStatus("connected", w)
  ELSE UpdateStatus("searching", w)

\* UIManager.updateFromSceneState
UpdateFromSceneState(ss, w) ==
  IF ss.motherChildReunited THEN UpdateStatus("reunited", w)
  ELSE IF ss.bridgeTriggered THEN UpdateStatus("connected", w)
  ELSE IF ss.bridgeAligned THEN UpdateStatus("aligning", w)
  ELSE UpdateStatus("searching", w)

\* the sceneState object with bridgeTriggered wired to the bridge having moved
BuildSceneState_Wired(w) ==
  LET measured == w.mother.mesh # NoMesh /\ w.child.mesh # NoMesh
      distanceSq == IF measured THEN DistanceSq(w.mother.position, w.child.position) ELSE 0
  IN [bridgeAligned |-> w.bridge.isAligned,
      bridgeTriggered |-> w.bridge.left.z # 0,
      motherChildReunited |-> measured /\ distanceSq < ReunionDistance * ReunionDistance,
      measured |-> measured,
      distanceSq |-> distanceSq]

\* the sceneState object App.animate builds; measured and distanceSq keep its
\* local `distance` (squared), which is computed only when both characters exist
BuildSceneState(w) ==
  LET measured == w.mother.mesh # NoMesh /\ w.child.mesh # NoMesh
      distanceSq == IF measured THEN DistanceSq(w.mother.position, w.child.position) ELSE 0
  IN [bridgeAligned |-> w.bridge.isAligned,
      bridgeTriggered |-> FALSE,
      motherChildReunited |-> measured /\ distanceSq < ReunionDistance * ReunionDistance,
      measured |-> measured,
      distanceSq |-> distanceSq]

\* App.animate: asks for the next frame, polls the scene and updates the UI
AppAnimate(cb, w) ==
  LET ss == BuildSceneState(w)
  IN [w |-> UpdateFromSceneState(ss, [w EXCEPT !.sceneState = ss]), again |-> TRUE]

RunCallback(cb, w) ==
  CASE cb.kind = "camera" -> CameraAnimate(cb, w)
    [] cb.kind = "bridge" -> BridgeAnimate(cb, w)
    [] cb.kind = "char"   -> CharacterAnimate(cb, w)
    [] OTHER              -> AppAnimate(cb, w)

\* one display frame: the callbacks registered for it run in registration
\* order, and those that ask for another frame keep that order
RECURSIVE RunFrame(_, _, _, _)
RunFrame(queue, i, w, next) ==
  IF i > Len(queue) THEN [w |-> w, raf |-> next]
  ELSE CHOOSE st \in
         {RunFrame(queue, i + 1, r.w, IF r.again THEN Append(next, queue[i]) ELSE next) :
            r \in {RunCallback(queue[i], w)}} : TRUE

\* a tween's first call of its closure is made at once, by the function that
\* starts it; st is the world together with the callback queue
StartTween(cb, st) ==
  CHOOSE new \in
    {[w |-> r.w, raf |-> IF r.again THEN Append(st.raf, cb) ELSE st.raf] :
       r \in {RunCallback(cb, st.w)}} : TRUE

(***************************************************************************)
(* CameraManager.                                                          *)
(***************************************************************************)

\* CameraManager.animateToPosition
AnimateToPosition(targetPosition, targetLookAt, st) ==
  StartTween(Callback("camera", "camera", NoMesh, st.w.camPos,
                      GetCameraLookAt(st.w.camPos, st.w.camLookAt),
                      targetPosition, targetLookAt), st)

\* setPresetView without its first line, the check of isAnimating
SetPresetView_NoGuard(presetName, st) ==
  IF presetName \notin PresetNames THEN st
  ELSE AnimateToPosition(presets[presetName].position, presets[presetName].target,
         [st EXCEPT !.w.currentPreset = presetName, !.w.isAnimating = TRUE])

\* setPresetView keeping the alignment flag in step with the preset it goes to
SetPresetView_ResetsAlignment(presetName, st) ==
  IF st.w.isAnimating THEN st
  ELSE IF presetName \notin PresetNames THEN st
  ELSE AnimateToPosition(presets[presetName].position, presets[presetName].target,
         [st EXCEPT !.w.currentPreset = presetName, !.w.isAnimating = TRUE,
                    !.w.bridge.isAligned = (presetName = "emotional")])

\* CameraManager.setPresetView
SetPresetView(presetName, st) ==
  IF st.w.isAnimating THEN st
  ELSE IF presetName \notin PresetNames THEN st
  ELSE AnimateToPosition(presets[presetName].position, presets[presetName].target,
         [st EXCEPT !.w.currentPreset = presetName, !.w.isAnimating = TRUE])

\* isNearEmotionalView with a distance equal to the threshold counted as near
IsNearEmotionalView_Inclusive(threshold, w) ==
  threshold >= 0 /\ DistanceSq(w.camPos, presets.emotional.position) <= threshold * threshold

\* isNearEmotionalView with the comparison the other way round
IsNearEmotionalView_Reversed(threshold, w) ==
  threshold < 0 \/ DistanceSq(w.camPos, presets.emotional.position) > threshold * threshold

\* CameraManager.isNearEmotionalView; distance < threshold is decided on the
\* squares, both being non-negative
IsNearEmotionalView(threshold, w) ==
  threshold > 0 /\ DistanceSq(w.camPos, presets.emotional.position) < threshold * threshold

(***************************************************************************)
(* SceneManager.                                                           *)
(***************************************************************************)

\* SceneManager.setMother and setChild: the mesh in the scene is replaced and
\* the new one is put on the character's platform
SetCharacter(who, mesh, w) ==
  [w EXCEPT ![who] = [mesh |-> mesh,
                      position |-> IF who = "mother" THEN MotherStart ELSE ChildStart]]

\* animateBridgeSegment refusing a segment that a tween is still moving
AnimateBridgeSegment_Guarded(segment, target, st) ==
  IF \E i \in 1..Len(st.raf) : st.raf[i].kind = "bridge" /\ st.raf[i].obj = segment
    THEN st
    ELSE StartTween(Callback("bridge", segment, NoMesh, st.w.bridge[segment], Origin,
                             target, Origin), st)

\* SceneManager.animateBridgeSegment
AnimateBridgeSegment(segment, target, st) ==
  StartTween(Callback("bridge", segment, NoMesh, st.w.bridge[segment], Origin,
                      target, Origin), st)

\* animateCharacter starting the walk from the platform, not from where the
\* character stands
AnimateCharacter_FromPlatform(who, target, st) ==
  StartTween(Callback("char", who, st.w[who].mesh,
                      IF who = "mother" THEN MotherStart ELSE ChildStart, Origin,
                      target, Origin), st)

\* SceneManager.animateCharacter
AnimateCharacter(who, target, st) ==
  StartTween(Callback("char", who, st.w[who].mesh, st.w[who].position, Origin,
                      target, Origin), st)

\* SceneManager.triggerReunion
TriggerReunion(st) ==
  IF st.w.mother.mesh = NoMesh \/ st.w.child.mesh = NoMesh THEN st
  ELSE AnimateCharacter("child", [x |-> ChildTargetX],
         AnimateCharacter("mother", [x |-> MotherTargetX], st))

\* the aligned branch with the targets taken as absolute z values
MoveBridge_AbsoluteTarget(st) ==
  LET leftTargetZ == BridgeOffset
      rightTargetZ == BridgeOffset
  IN TriggerReunion(
       AnimateBridgeSegment("right", [z |-> rightTargetZ],
         AnimateBridgeSegment("left", [z |-> leftTargetZ], st)))

\* the aligned branch without the call of triggerReunion
MoveBridge_NoReunion(st) ==
  LET leftTargetZ == st.w.bridge.left.z + BridgeOffset
      rightTargetZ == st.w.bridge.right.z + BridgeOffset
  IN AnimateBridgeSegment("right", [z |-> rightTargetZ],
       AnimateBridgeSegment("left", [z |-> leftTargetZ], st))

\* the aligned branch of SceneManager.triggerBridgeMovement: both segments
\* are sent 0.3 further along z and the reunion is started
MoveBridge(st) ==
  LET leftTargetZ == st.w.bridge.left.z + BridgeOffset
      rightTargetZ == st.w.bridge.right.z + BridgeOffset
  IN TriggerReunion(
       AnimateBridgeSegment("right", [z |-> rightTargetZ],
         AnimateBridgeSegment("left", [z |-> leftTargetZ], st)))

\* SceneManager.triggerBridgeMovement
TriggerBridgeMovement(st) ==
  IF st.w.bridge.isAligned THEN MoveBridge(st) ELSE st

\* SceneManager.setBridgeAligned
SetBridgeAligned(aligned, st) == [st EXCEPT !.w.bridge.isAligned = aligned]

(***************************************************************************)
(* ControlsManager.                                                        *)
(***************************************************************************)

\* the handler starting the movement without any check of alignment
TriggerBridgeMechanism_NoCheck(st) == MoveBridge(st)

\* ControlsManager.triggerBridgeMechanism
TriggerBridgeMechanism(st) ==
  IF IsNearEmotionalView(TriggerThreshold, st.w) \/ st.w.bridge.isAligned
    THEN TriggerBridgeMovement(st)
    ELSE st

\* the world and the callback queue of the current state
Here == [w |-> World, raf |-> raf]

\* the next state takes the world and the callback queue of st
Commit(st) ==
  /\ camPos' = st.w.camPos
  /\ camLookAt' = st.w.camLookAt
  /\ currentPreset' = st.w.currentPreset
  /\ isAnimating' = st.w.isAnimating
  /\ bridge' = st.w.bridge
  /\ mother' = st.w.mother
  /\ child' = st.w.child
  /\ currentState' = st.w.currentState
  /\ sceneState' = st.w.sceneState
  /\ raf' = st.raf

\* the tail of the three view handlers: with OrbitControls present they are
\* switched off and a timer is set to switch them on again after 2100 ms
DisableOrbitForTransition ==
  IF hasOrbit
    THEN orbitEnabled' = FALSE /\ timers' = timers \cup {OrbitReenableDelay}
    ELSE UNCHANGED <<orbitEnabled, timers>>

UserOp(op, arg, done) ==
  /\ UNCHANGED frameDue
  /\ budget' = budget - 1
  /\ lastOp' = [op |-> op, arg |-> arg, done |-> done]

\* ControlsManager.switchToMotherView
SwitchToMotherView ==
  /\ budget > 0
  /\ \E st \in {SetPresetView("mother", Here)} : Commit(st)
  /\ DisableOrbitForTransition
  /\ UserOp("view", "mother", raf' # raf)
  /\ UNCHANGED <<loads, hasOrbit, page>>

\* ControlsManager.switchToChildView
SwitchToChildView ==
  /\ budget > 0
  /\ \E st \in {SetPresetView("child", Here)} : Commit(st)
  /\ DisableOrbitForTransition
  /\ UserOp("view", "child", raf' # raf)
  /\ UNCHANGED <<loads, hasOrbit, page>>

\* switchToEmotionalView marking the bridge aligned only when its request for
\* the emotional view is accepted
SwitchToEmotionalView_AlignsWhenAccepted ==
  /\ budget > 0
  /\ \E st \in {SetBridgeAligned(bridge.isAligned \/ ~isAnimating,
                                 SetPresetView("emotional", Here))} : Commit(st)
  /\ DisableOrbitForTransition
  /\ UserOp("view", "emotional", raf' # raf)
  /\ UNCHANGED <<loads, hasOrbit, page>>

\* ControlsManager.switchToEmotionalView
SwitchToEmotionalView ==
  /\ budget > 0
  /\ \E st \in {SetBridgeAligned(TRUE, SetPresetView("emotional", Here))} : Commit(st)
  /\ DisableOrbitForTransition
  /\ UserOp("view", "emotional", raf' # raf)
  /\ UNCHANGED <<loads, hasOrbit, page>>

\* the click handler of btn-trigger-bridge
ClickTriggerBridge ==
  /\ budget > 0
  /\ \E st \in {TriggerBridgeMechanism(Here)} : Commit(st)
  /\ UserOp("trigger", "bridge", raf' # raf)
  /\ UNCHANGED <<loads, hasOrbit, orbitEnabled, timers, page>>

\* a drag of the pointer: OrbitControls while they are enabled, or the
\* mousemove handler of setupBasicControls when there are none; the camera is
\* left on its sphere at the dragged position, looking at the origin
OrbitDrag ==
  /\ budget > 0
  /\ hasOrbit => orbitEnabled
  /\ \E p \in OrbitPositions :
       /\ camPos' = p
       /\ camLookAt' = Origin
  /\ UserOp("drag", "camera", TRUE)
  /\ UNCHANGED <<currentPreset, isAnimating, bridge, mother, child, loads, raf,
                 hasOrbit, orbitEnabled, timers, currentState, sceneState, page>>

\* the callback of a re-enable timer whose delay has passed
OrbitReenable ==
  /\ 0 \in timers
  /\ timers' = timers \ {0}
  /\ orbitEnabled' = TRUE
  /\ lastOp' = [op |-> "timer", arg |-> "orbit", done |-> TRUE]
  /\ UNCHANGED <<camPos, camLookAt, currentPreset, isAnimating, bridge, mother, child,
                 loads, raf, hasOrbit, currentState, sceneState, frameDue, budget, page>>

\* the success callback of a model load (App.loadModels): the loaded model
\* becomes the character; gltf.scene is taken to be an object, as the loader
\* of the 3D library documents it
LoadSucceeds(who) ==
  /\ loads[who] = "pending"
  /\ loads' = [loads EXCEPT ![who] = "resolved"]
  /\ \E w \in {SetCharacter(who, "gltf", World)} : Commit([w |-> w, raf |-> raf])
  /\ lastOp' = [op |-> "load", arg |-> who, done |-> TRUE]
  /\ UNCHANGED <<hasOrbit, orbitEnabled, timers, frameDue, budget, page>>

\* the error callback doing no more than logging the failure
LoadFails_LogOnly(who) ==
  /\ loads[who] = "pending"
  /\ loads' = [loads EXCEPT ![who] = "resolved"]
  /\ lastOp' = [op |-> "load", arg |-> who, done |-> FALSE]
  /\ UNCHANGED <<camPos, camLookAt, currentPreset, isAnimating, bridge, mother, child,
                 raf, currentState, sceneState, hasOrbit, orbitEnabled, timers,
                 frameDue, budget, page>>

\* the error callback of a model load: a placeholder becomes the character
LoadFails(who) ==
  /\ loads[who] = "pending"
  /\ loads' = [loads EXCEPT ![who] = "resolved"]
  /\ \E w \in {SetCharacter(who, "placeholder", World)} : Commit([w |-> w, raf |-> raf])
  /\ lastOp' = [op |-> "load", arg |-> who, done |-> FALSE]
  /\ UNCHANGED <<hasOrbit, orbitEnabled, timers, frameDue, budget, page>>

LoadMotherSucceeds == LoadSucceeds("mother")

LoadMotherFails == LoadFails("mother")

LoadChildSucceeds == LoadSucceeds("child")

LoadChildFails == LoadFails("child")

\* Date.now() advances: every tween in flight is older (past its duration its
\* progress stays 1) and every pending timer is nearer.  The browser is taken
\* to run a display frame at least once per step of the clock, and a timer
\* callback that is due before the clock moves on.
Tick ==
  /\ ~frameDue
  /\ 0 \notin timers
  /\ 0 \notin page.fallback
  /\ frameDue' = TRUE
  /\ raf' = [i \in 1..Len(raf) |->
               [raf[i] EXCEPT !.age = Min(@ + TickStep, Duration(raf[i]))]]
  /\ timers' = {Max(t - TickStep, 0) : t \in timers}
  /\ page' = [page EXCEPT !.fallback = {Max(t - TickStep, 0) : t \in @}]
  /\ lastOp' = [op |-> "tick", arg |-> "clock", done |-> TRUE]
  /\ UNCHANGED <<camPos, camLookAt, currentPreset, isAnimating, bridge, mother, child,
                 loads, hasOrbit, orbitEnabled, currentState, sceneState, budget>>

\* the browser runs one display frame
Frame ==
  /\ frameDue' = FALSE
  /\ \E st \in {RunFrame(raf, 1, World, <<>>)} : Commit(st)
  /\ lastOp' = [op |-> "frame", arg |-> "raf", done |-> Len(raf') < Len(raf)]
  /\ UNCHANGED <<loads, hasOrbit, orbitEnabled, timers, budget, page>>

\* window sizes, as <<innerWidth, innerHeight>>; an aspect ratio is kept as the
\* pair it is the quotient of
WindowSizes == {<<1600, 900>>, <<800, 600>>}

StartupSize == <<1600, 900>>

\* the window of an application that initApp constructed at once: the library
\* is loaded and announced, no listener and no fallback timer were registered
RunningPage ==
  [three |-> TRUE, threeLoaded |-> TRUE, ready |-> TRUE, listener |-> FALSE,
   fallback |-> {}, apps |-> 1, size |-> StartupSize, aspect |-> StartupSize]

\* the resize handlers of CameraManager and App: the window has a new size and
\* camera.aspect becomes innerWidth / innerHeight
Resize ==
  /\ budget > 0
  /\ \E size \in WindowSizes \ {page.size} :
       page' = [page EXCEPT !.size = size, !.aspect = size]
  /\ UserOp("resize", "window", TRUE)
  /\ UNCHANGED <<camPos, camLookAt, currentPreset, isAnimating, bridge, mother, child,
                 loads, raf, hasOrbit, orbitEnabled, timers, currentState, sceneState>>

(***************************************************************************)
(* The state after new App(): the constructors have run, the camera is on  *)
(* its startup transition to the mother preset, the render loop has made   *)
(* its first call, and the two models are either being loaded or, with no  *)
(* loader, already replaced by placeholders.                               *)
(***************************************************************************)

\* SceneManager.createBridge
CreateBridge == [left |-> LeftBridgeStart, right |-> RightBridgeStart, isAligned |-> FALSE]

NoCharacter == [mesh |-> NoMesh, position |-> Origin]

\* the world when the constructors of SceneManager, CameraManager and UIManager
\* have set their fields and CameraManager.init has made the camera
Constructed ==
  [camPos |-> Origin, camLookAt |-> InitialLookAt, currentPreset |-> "none",
   isAnimating |-> FALSE, bridge |-> CreateBridge, mother |-> NoCharacter,
   child |-> NoCharacter, currentState |-> "searching",
   sceneState |-> [bridgeAligned |-> FALSE, bridgeTriggered |-> FALSE,
                   motherChildReunited |-> FALSE, measured |-> FALSE, distanceSq |-> 0]]

\* App.createPlaceholderModels
CreatePlaceholderModels(w) ==
  SetCharacter("child", "placeholder", SetCharacter("mother", "placeholder", w))

\* loadModels putting the placeholders in the scene before it starts the loads
LoadModels_PlaceholdersFirst(loader, st) ==
  [st EXCEPT !.w = CreatePlaceholderModels(st.w)]

\* App.loadModels: without a loader the placeholders are made at once
LoadModels(loader, st) ==
  IF loader THEN st ELSE [st EXCEPT !.w = CreatePlaceholderModels(st.w)]

AppCallback == Callback("app", "app", NoMesh, Origin, Origin, Origin, Origin)

\* App.init: CameraManager.init starts the startup transition, loadModels
\* runs, and App.animate makes its first call and registers itself
AppInit(loader) ==
  StartTween(AppCallback, LoadModels(loader, SetPresetView("mother", [w |-> Constructed, raf |-> <<>>])))

AppStarted(commands) ==
  \E loader \in BOOLEAN, orbit \in BOOLEAN :
    \E st \in {AppInit(loader)} :
       /\ camPos = st.w.camPos
       /\ camLookAt = st.w.camLookAt
       /\ currentPreset = st.w.currentPreset
       /\ isAnimating = st.w.isAnimating
       /\ bridge = st.w.bridge
       /\ mother = st.w.mother
       /\ child = st.w.child
       /\ currentState = st.w.currentState
       /\ sceneState = st.w.sceneState
       /\ raf = st.raf
       /\ loads = IF loader THEN [mother |-> "pending", child |-> "pending"]
                  ELSE [mother |-> "none", child |-> "none"]
       /\ hasOrbit = orbit
       /\ orbitEnabled = TRUE
       /\ timers = {}
       /\ frameDue = FALSE
       /\ budget = commands
       /\ page = RunningPage
       /\ lastOp = [op |-> "init", arg |-> "app", done |-> TRUE]

Init == AppStarted(MaxUserOps)

Next ==
  \/ SwitchToMotherView
  \/ SwitchToChildView
  \/ SwitchToEmotionalView
  \/ ClickTriggerBridge
  \/ OrbitDrag
  \/ Resize
  \/ OrbitReenable
  \/ LoadMotherSucceeds
  \/ LoadMotherFails
  \/ LoadChildSucceeds
  \/ LoadChildFails
  \/ Tick
  \/ Frame

Spec == Init /\ [][Next]_vars

(***************************************************************************)
(* The same program under the scheduling the browser gives it: the clock   *)
(* advances, display frames keep coming, due timers fire, and each model   *)
(* load ends in one of its two callbacks.  Runs are kept to MaxFairOps     *)
(* user commands.                                                          *)
(***************************************************************************)
MaxFairOps == 2

InitFair == AppStarted(MaxFairOps)

LoadResolves(who) == LoadSucceeds(who) \/ LoadFails(who)

FairSpec ==
  /\ InitFair
  /\ [][Next]_vars
  /\ WF_vars(Tick)
  /\ WF_vars(Frame)
  /\ WF_vars(OrbitReenable)
  /\ WF_vars(LoadResolves("mother"))
  /\ WF_vars(LoadResolves("child"))

(***************************************************************************)
(* The narrative-state reflector on its own: the scene is drawn from a     *)
(* bounded set of character placements, alignment flags and displayed      *)
(* states, and the reflector is applied to it, by the render loop and with *)
(* either value of the bridgeTriggered flag.                               *)
(***************************************************************************)
NarrativeStates == {"searching", "aligning", "connected", "reunited"}

\* x coordinates for the mother (negated) and the child: 12, 2.5, 2.49, 2, 1.5
DrawnOffsets == {1200, 250, 249, 200, 150}

DrawnMeshes == {NoMesh, "placeholder"}

InitUI ==
  \E mx \in DrawnOffsets, cx \in DrawnOffsets, mm \in DrawnMeshes, cm \in DrawnMeshes,
     aligned \in BOOLEAN, shown \in NarrativeStates :
    /\ camPos = Constructed.camPos
    /\ camLookAt = Constructed.camLookAt
    /\ currentPreset = Constructed.currentPreset
    /\ isAnimating = Constructed.isAnimating
    /\ bridge = [CreateBridge EXCEPT !.isAligned = aligned]
    /\ mother = [mesh |-> mm, position |-> Vec(0 - mx, 100, 0)]
    /\ child = [mesh |-> cm, position |-> Vec(cx, 100, 0)]
    /\ currentState = shown
    /\ sceneState = Constructed.sceneState
    /\ raf = <<AppCallback>>
    /\ loads = [mother |-> "none", child |-> "none"]
    /\ hasOrbit = FALSE
    /\ orbitEnabled = TRUE
    /\ timers = {}
    /\ frameDue = FALSE
    /\ budget = 0
    /\ page = RunningPage
    /\ lastOp = [op |-> "drawn", arg |-> "scene", done |-> TRUE]

\* UIManager.updateFromSceneState applied to the scene with a given value of
\* the bridgeTriggered flag
ReflectSceneState ==
  /\ \E flag \in BOOLEAN :
       \E ss \in {[BuildSceneState(World) EXCEPT !.bridgeTriggered = flag]} :
         /\ sceneState' = ss
         /\ currentState' = UpdateFromSceneState(ss, World).currentState
  /\ lastOp' = [op |-> "reflect", arg |-> "ui", done |-> TRUE]
  /\ UNCHANGED <<camPos, camLookAt, currentPreset, isAnimating, bridge, mother, child,
                 loads, raf, hasOrbit, orbitEnabled, timers, frameDue, budget, page>>

NextUI == Frame \/ ReflectSceneState

SpecUI == InitUI /\ [][NextUI]_vars

(***************************************************************************)
(* CameraManager.isNearEmotionalView on its own: the camera is drawn from  *)
(* a bounded set of positions around the emotional preset, each at a known *)
(* distance from it, and the function is called with and without its       *)
(* argument.  lastOp keeps the arguments and the result of the last call   *)
(* and, in before, those of the call that preceded it.                     *)
(***************************************************************************)

\* offsets from the emotional preset and their Euclidean lengths: 0, 1, 1.99,
\* 2 (four ways), 2.01, 2.99, 3 (three ways) and 5
DrawnCameraOffsets ==
  {[offset |-> Vec(0, 0, 0),       distance |-> 0],
   [offset |-> Vec(0, 0, -100),    distance |-> 100],
   [offset |-> Vec(199, 0, 0),     distance |-> 199],
   [offset |-> Vec(200, 0, 0),     distance |-> 200],
   [offset |-> Vec(0, -200, 0),    distance |-> 200],
   [offset |-> Vec(120, 160, 0),   distance |-> 200],
   [offset |-> Vec(0, -120, 160),  distance |-> 200],
   [offset |-> Vec(-201, 0, 0),    distance |-> 201],
   [offset |-> Vec(0, 299, 0),     distance |-> 299],
   [offset |-> Vec(0, 0, 300),     distance |-> 300],
   [offset |-> Vec(100, 200, 200), distance |-> 300],
   [offset |-> Vec(-180, 0, 240),  distance |-> 300],
   [offset |-> Vec(400, 0, -300),  distance |-> 500]}

\* argument lists of a call: none, or one threshold (-1, 0, 1, 2, 2.01, 3, 5)
DrawnThresholdArgs ==
  {<<>>, <<-100>>, <<0>>, <<100>>, <<200>>, <<201>>, <<300>>, <<500>>}

\* a call of isNearEmotionalView(threshold = 2.0) with an argument list
IsNearEmotionalViewCall(args, w) ==
  IsNearEmotionalView(IF Len(args) = 0 THEN DefaultThreshold ELSE args[1], w)

InitNear ==
  \E d \in DrawnCameraOffsets :
    /\ camPos = Vec(presets.emotional.position.x + d.offset.x,
                    presets.emotional.position.y + d.offset.y,
                    presets.emotional.position.z + d.offset.z)
    /\ camLookAt = presets.emotional.target
    /\ currentPreset = Constructed.currentPreset
    /\ isAnimating = Constructed.isAnimating
    /\ bridge = CreateBridge
    /\ mother = NoCharacter
    /\ child = NoCharacter
    /\ currentState = Constructed.currentState
    /\ sceneState = Constructed.sceneState
    /\ raf = <<>>
    /\ loads = [mother |-> "none", child |-> "none"]
    /\ hasOrbit = FALSE
    /\ orbitEnabled = TRUE
    /\ timers = {}
    /\ frameDue = FALSE
    /\ budget = 0
    /\ page = RunningPage
    /\ lastOp = [op |-> "drawn", arg |-> <<>>, done |-> FALSE, before |-> <<>>]

\* one call of isNearEmotionalView at the camera's position
CallIsNearEmotionalView ==
  /\ \E args \in DrawnThresholdArgs :
       lastOp' = [op |-> "near", arg |-> args,
                  done |-> IsNearEmotionalViewCall(args, World),
                  before |-> IF lastOp.op = "near"
                               THEN <<[arg |-> lastOp.arg, done |-> lastOp.done]>>
                               ELSE <<>>]
  /\ UNCHANGED <<camPos, camLookAt, currentPreset, isAnimating, bridge, mother, child,
                 loads, raf, hasOrbit, orbitEnabled, timers, currentState, sceneState,
                 frameDue, budget, page>>

NextNear == CallIsNearEmotionalView

SpecNear == InitNear /\ [][NextNear]_vars

(***************************************************************************)
(* initApp: the page from before DOMContentLoaded.  The script of the 3D   *)
(* library defines window.THREE when it has run; the page then sets        *)
(* window.THREE_LOADED and dispatches 'three-loaded'.  page.apps counts    *)
(* the App instances constructed; the scene variables follow the first     *)
(* one, whose render loop runs, and until it exists they hold the values   *)
(* its constructors will give them.                                        *)
(***************************************************************************)
FallbackDelay == 20

appVars ==
  <<camPos, camLookAt, currentPreset, isAnimating, bridge, mother, child,
    currentState, sceneState, raf, loads, hasOrbit, orbitEnabled, timers>>

InitBoot ==
  /\ camPos = Constructed.camPos
  /\ camLookAt = Constructed.camLookAt
  /\ currentPreset = Constructed.currentPreset
  /\ isAnimating = Constructed.isAnimating
  /\ bridge = Constructed.bridge
  /\ mother = Constructed.mother
  /\ child = Constructed.child
  /\ currentState = Constructed.currentState
  /\ sceneState = Constructed.sceneState
  /\ raf = <<>>
  /\ loads = [mother |-> "none", child |-> "none"]
  /\ hasOrbit = FALSE
  /\ orbitEnabled = TRUE
  /\ timers = {}
  /\ frameDue = FALSE
  /\ budget = 0
  /\ page = [three |-> FALSE, threeLoaded |-> FALSE, ready |-> FALSE, listener |-> FALSE,
             fallback |-> {}, apps |-> 0, size |-> StartupSize, aspect |-> StartupSize]
  /\ lastOp = [op |-> "boot", arg |-> "page", done |-> FALSE]

\* new App(), in a handler that leaves the page as p
NewApp(p) ==
  /\ page' = [p EXCEPT !.apps = @ + 1]
  /\ IF page.apps = 0
       THEN \E loader \in BOOLEAN, orbit \in BOOLEAN :
              /\ \E st \in {AppInit(loader)} : Commit(st)
              /\ loads' = IF loader THEN [mother |-> "pending", child |-> "pending"]
                          ELSE [mother |-> "none", child |-> "none"]
              /\ hasOrbit' = orbit
              /\ orbitEnabled' = TRUE
              /\ timers' = {}
       ELSE UNCHANGED appVars

\* the script of the 3D library has run
ThreeScriptLoads ==
  /\ ~page.three
  /\ page' = [page EXCEPT !.three = TRUE]
  /\ lastOp' = [op |-> "boot", arg |-> "script", done |-> FALSE]
  /\ UNCHANGED <<appVars, frameDue, budget>>

\* the page announces the library; the listener that initApp may have
\* registered, with once: true, constructs an App
ThreeLoadedEvent ==
  /\ page.three
  /\ ~page.threeLoaded
  /\ IF page.listener
       THEN NewApp([page EXCEPT !.threeLoaded = TRUE, !.listener = FALSE])
       ELSE page' = [page EXCEPT !.threeLoaded = TRUE] /\ UNCHANGED appVars
  /\ lastOp' = [op |-> "boot", arg |-> "event", done |-> page.listener]
  /\ UNCHANGED <<frameDue, budget>>

\* initApp, the handler of DOMContentLoaded
DOMContentLoaded ==
  /\ ~page.ready
  /\ IF page.three /\ page.threeLoaded
       THEN NewApp([page EXCEPT !.ready = TRUE])
       ELSE /\ page' = [page EXCEPT !.ready = TRUE, !.listener = TRUE,
                                    !.fallback = {FallbackDelay}]
            /\ UNCHANGED appVars
  /\ lastOp' = [op |-> "boot", arg |-> "dom", done |-> page.three /\ page.threeLoaded]
  /\ UNCHANGED <<frameDue, budget>>

\* the callback of the fallback timer of initApp
FallbackTimer ==
  /\ 0 \in page.fallback
  /\ IF page.three
       THEN NewApp([page EXCEPT !.fallback = {}])
       ELSE page' = [page EXCEPT !.fallback = {}] /\ UNCHANGED appVars
  /\ lastOp' = [op |-> "boot", arg |-> "fallback", done |-> page.three]
  /\ UNCHANGED <<frameDue, budget>>

NextBoot ==
  \/ ThreeScriptLoads
  \/ ThreeLoadedEvent
  \/ DOMContentLoaded
  \/ FallbackTimer
  \/ Tick
  \/ Frame

SpecBoot == InitBoot /\ [][NextBoot]_vars

(***************************************************************************)
(* Properties.                                                             *)
(***************************************************************************)

\* the camera tweens among the callbacks of a queue
CameraTweens(queue) == SelectSeq(queue, LAMBDA cb : cb.kind = "camera")

\* the bridge tweens among the callbacks of a queue
BridgeTweens(queue) == SelectSeq(queue, LAMBDA cb : cb.kind = "bridge")

\* the character tweens among the callbacks of a queue
CharacterTweens(queue) == SelectSeq(queue, LAMBDA cb : cb.kind = "char")

ViewClick == SwitchToMotherView \/ SwitchToChildView \/ SwitchToEmotionalView

\* the frame in which the camera tween in flight makes its last call
CameraTweenCompletes ==
  Frame /\ Len(CameraTweens(raf)) > 0 /\ Len(CameraTweens(raf')) < Len(CameraTweens(raf))

\* C1: a view button pressed while a camera transition is in progress leaves
\* currentPreset, isAnimating, the camera and the callback queue (so the tween
\* in flight and its target) as they were and starts no second tween; and the
\* tween in flight ends at the target it was started with.
C1_SetPresetViewIgnoredWhileAnimating ==
  [][/\ (isAnimating /\ ViewClick) =>
          UNCHANGED <<currentPreset, isAnimating, camPos, camLookAt, raf>>
     /\ CameraTweenCompletes => camPos' = CameraTweens(raf)[1].target]_vars

\* a view button was pressed during a transition and nothing was started
C1_Witness ==
  /\ lastOp = [op |-> "view", arg |-> "child", done |-> FALSE]
  /\ isAnimating
  /\ currentPreset = "mother"
  /\ Len(CameraTweens(raf)) = 1

\* C2: in every reachable state at most one camera tween is in flight.
C2_SingleCameraTween == Len(CameraTweens(raf)) <= 1

\* a transition started by a click is in flight and a later click was ignored
C2_Witness ==
  /\ lastOp.op = "view" /\ ~lastOp.done
  /\ currentPreset = "child"
  /\ Len(CameraTweens(raf)) = 1
  /\ CameraTweens(raf)[1].age > 0

SameTween(a, b) == [a EXCEPT !.age = 0] = [b EXCEPT !.age = 0]

InFlight(cb) == cb.kind # "app" /\ cb.age < Duration(cb)

\* C4: a tween, once started, runs to completion: no step takes a tween whose
\* progress is below 1 out of the callback queue, a frame leaves in the queue
\* no tween whose progress has reached 1 and, with the clock advancing and
\* frames coming, the queue is eventually down to the render loop with
\* isAnimating false.
C4_TweensRunToCompletion ==
  /\ [][/\ \A i \in 1..Len(raf) :
             InFlight(raf[i]) => \E j \in 1..Len(raf') : SameTween(raf'[j], raf[i])
        /\ Frame => \A j \in 1..Len(raf') : raf'[j].kind = "app" \/ InFlight(raf'[j])]_vars
  /\ (isAnimating \/ Len(raf) > 1) ~> (~isAnimating /\ Len(raf) = 1)

\* a camera, a bridge and a character tween have all run to their ends
C4_Witness ==
  /\ Len(raf) = 1
  /\ ~isAnimating
  /\ camPos = presets.emotional.position
  /\ bridge.left.z = LeftBridgeStart.z + BridgeOffset
  /\ bridge.right.z = RightBridgeStart.z + BridgeOffset
  /\ mother.position.x = MotherTargetX
  /\ child.position.x = ChildTargetX

\* C5: a click on the trigger button starts the bridge tweens if and only if
\* the camera is within the trigger threshold of the emotional preset or
\* isAligned is set.
C5_TriggerIffNearOrAligned ==
  [][ClickTriggerBridge =>
       ((Len(BridgeTweens(raf')) > Len(BridgeTweens(raf)))
          <=> (IsNearEmotionalView(TriggerThreshold, World) \/ bridge.isAligned))]_vars

\* C6: a click on the trigger button while isAligned is false and the camera
\* is not within the trigger threshold changes neither the bridge nor the
\* characters, starts no tween and leaves the displayed state as it was.
C6_PrematureTriggerIsNoOp ==
  [][(ClickTriggerBridge /\ ~bridge.isAligned
        /\ ~IsNearEmotionalView(TriggerThreshold, World)) =>
       UNCHANGED <<bridge, mother, child, raf, currentState, sceneState, cameraVars>>]_vars

\* the trigger button was pressed too early, and nothing was started
C6_Witness ==
  /\ lastOp = [op |-> "trigger", arg |-> "bridge", done |-> FALSE]
  /\ ~bridge.isAligned
  /\ ~IsNearEmotionalView(TriggerThreshold, World)
  /\ bridge.left = LeftBridgeStart
  /\ bridge.right = RightBridgeStart

\* the segment of a bridge tween, 0.3 further along z than where it started
MovedByOffset(cb) == [cb.start EXCEPT !.z = @ + BridgeOffset]

\* a bridge tween whose closure makes its last call in the next frame
Completing(i) == raf[i].kind = "bridge" /\ raf[i].age >= BridgeDuration

\* a tween started later on the same segment is in the queue
Overlapped(i) ==
  \E j \in (i + 1)..Len(raf) : raf[j].kind = "bridge" /\ raf[j].obj = raf[i].obj

\* C7 as claimed: in the frame in which a bridge tween completes, its segment
\* is 0.3 further along z than it was when the trigger was issued, x and y as
\* they were, for every trigger.
C7_EveryTriggerMovesByOffset ==
  [][Frame =>
       \A i \in 1..Len(raf) :
         Completing(i) => bridge'[raf[i].obj] = MovedByOffset(raf[i])]_vars

\* C7, amended: the same for every bridge tween that no later trigger has
\* overlapped, that is with no tween started later on its segment in flight.
C7_UnoverlappedTriggerMovesByOffset ==
  [][Frame =>
       \A i \in 1..Len(raf) :
         (Completing(i) /\ ~Overlapped(i)) =>
            bridge'[raf[i].obj] = MovedByOffset(raf[i])]_vars

\* two triggers, one after the other, have each moved both segments by 0.3
C7_Witness ==
  /\ lastOp = [op |-> "frame", arg |-> "raf", done |-> TRUE]
  /\ Len(BridgeTweens(raf)) = 0
  /\ bridge.left = [LeftBridgeStart EXCEPT !.z = @ + BridgeOffset + BridgeOffset]
  /\ bridge.right = [RightBridgeStart EXCEPT !.z = @ + BridgeOffset + BridgeOffset]

\* a click on the trigger button has just started the bridge tweens
TriggerSucceeded == lastOp.op = "trigger" /\ lastOp.done

BothCharactersPresent == mother.mesh # NoMesh /\ child.mesh # NoMesh

\* the distance the last poll measured is below 5
MeasuredNear ==
  sceneState.measured /\ sceneState.distanceSq < ReunionDistance * ReunionDistance

\* C8 as claimed: every successful trigger is followed by the displayed state
\* becoming 'reunited'.
C8_TriggerLeadsToReunion == TriggerSucceeded ~> (currentState = "reunited")

\* C8, amended: a successful trigger issued while both characters are in the
\* scene is followed by a poll measuring their distance below 5 and the displayed
\* state becoming 'reunited'.
C8_TriggerWithCharactersLeadsToReunion ==
  (TriggerSucceeded /\ BothCharactersPresent) ~>
     (currentState = "reunited" /\ MeasuredNear)

\* the reunion has been shown
C8_Witness ==
  /\ currentState = "reunited"
  /\ sceneState.motherChildReunited
  /\ mother.position.x = MotherTargetX
  /\ child.position.x = ChildTargetX
  /\ Len(CharacterTweens(raf)) = 0

\* C9: once the reflector has run, the state on display is decided by the
\* inputs of its last run alone, in this order: 'reunited' if the distance is
\* below 5; else 'connected' if bridgeTriggered; else 'aligning' if
\* bridgeAligned; else 'searching'.
C9_NarrativeStateByPrecedence ==
  lastOp.op # "drawn" =>
    /\ sceneState.motherChildReunited = MeasuredNear
    /\ MeasuredNear => currentState = "reunited"
    /\ (~MeasuredNear /\ sceneState.bridgeTriggered) => currentState = "connected"
    /\ (~MeasuredNear /\ ~sceneState.bridgeTriggered /\ sceneState.bridgeAligned) =>
          currentState = "aligning"
    /\ (~MeasuredNear /\ ~sceneState.bridgeTriggered /\ ~sceneState.bridgeAligned) =>
          currentState = "searching"

\* distance 3 with the alignment flag clear and the bridgeTriggered flag set
\* is shown as 'reunited'
C9_Witness ==
  /\ lastOp.op = "reflect"
  /\ sceneState.measured
  /\ sceneState.distanceSq = 300 * 300
  /\ ~sceneState.bridgeAligned
  /\ sceneState.bridgeTriggered
  /\ currentState = "reunited"

\* C10: the running application never shows 'connected', and the
\* bridgeTriggered flag of every poll is false.
C10_NeverConnected == currentState # "connected" /\ ~sceneState.bridgeTriggered

\* the bridge has been moved by a trigger and a later frame shows 'aligning'
C10_Witness ==
  /\ lastOp.op = "frame"
  /\ bridge.left.z >= LeftBridgeStart.z + BridgeOffset
  /\ Len(BridgeTweens(raf)) = 0
  /\ currentState = "aligning"
  /\ ~sceneState.bridgeTriggered

\* the distance of the drawn camera position from the emotional preset
DrawnDistance ==
  (CHOOSE d \in DrawnCameraOffsets :
     camPos = Vec(presets.emotional.position.x + d.offset.x,
                  presets.emotional.position.y + d.offset.y,
                  presets.emotional.position.z + d.offset.z)).distance

\* the threshold a call with the argument list args is to use: 2.0 when the
\* argument is omitted
ThresholdOf(args) == IF args = <<>> THEN 200 ELSE args[1]

\* C11: a call of isNearEmotionalView returns true if and only if the
\* Euclidean distance from the camera to the emotional preset is strictly
\* below the threshold, the threshold being 2.0 when the argument is omitted.
C11_NearIffDistanceBelowThreshold ==
  lastOp.op = "near" => (lastOp.done <=> DrawnDistance < ThresholdOf(lastOp.arg))

\* a call without argument at a distance of exactly 2.0 has returned false
C11_Witness ==
  /\ lastOp.op = "near"
  /\ lastOp.arg = <<>>
  /\ camPos = Vec(120, 660, 2000)
  /\ ~lastOp.done

\* C12: of two successive calls at the same camera position, the second with
\* a threshold at least as large as the first, the second returns true
\* whenever the first did.
C12_NearMonotonicInThreshold ==
  (lastOp.op = "near" /\ lastOp.before # <<>>) =>
     ((ThresholdOf(lastOp.before[1].arg) <= ThresholdOf(lastOp.arg)
         /\ lastOp.before[1].done) => lastOp.done)

\* a call with threshold 2.01 returned true at distance 2 and the next call,
\* with threshold 3, returned true as well
C12_Witness ==
  /\ lastOp.op = "near"
  /\ lastOp.before = <<[arg |-> <<201>>, done |-> TRUE]>>
  /\ lastOp.arg = <<300>>
  /\ lastOp.done
  /\ camPos = Vec(0, 380, 2160)

Characters == {"mother", "child"}

\* SceneManager.mother or SceneManager.child
Character(who) == IF who = "mother" THEN mother ELSE child

\* C13: a character whose load attempt has resolved, or whose load was never
\* started for want of a loader, is in the scene; the attempt resolves into
\* the loaded model or a placeholder, and a failed one into a placeholder.
C13_ResolvedLoadLeavesCharacter ==
  /\ [](\A who \in Characters : loads[who] # "pending" => Character(who).mesh # NoMesh)
  /\ [][/\ \A who \in Characters :
             (loads[who] = "pending" /\ loads'[who] # "pending") =>
                Character(who)'.mesh \in {"gltf", "placeholder"}
        /\ LoadMotherFails => mother'.mesh = "placeholder"
        /\ LoadChildFails => child'.mesh = "placeholder"]_vars

\* both loads have resolved, the mother's by failing, and both are in the scene
C13_Witness ==
  /\ loads = [mother |-> "resolved", child |-> "resolved"]
  /\ mother.mesh = "placeholder"
  /\ child.mesh = "gltf"

\* C14: a character that is in the scene has no load callback outstanding,
\* and no step replaces or removes it; its position changes only in a display
\* frame, by a character tween, and only in x.
C14_CharacterNeverReplaced ==
  /\ [](\A who \in Characters : Character(who).mesh # NoMesh => loads[who] # "pending")
  /\ [][\A who \in Characters :
          Character(who).mesh # NoMesh =>
            /\ Character(who)'.mesh = Character(who).mesh
            /\ Character(who)'.position # Character(who).position =>
                 /\ Frame
                 /\ \E i \in 1..Len(raf) : raf[i].kind = "char" /\ raf[i].obj = who
                 /\ Character(who)'.position.y = Character(who).position.y
                 /\ Character(who)'.position.z = Character(who).position.z]_vars

\* the loaded mother has walked to the meeting point and is still the model
\* that was loaded
C14_Witness ==
  /\ loads.mother = "resolved"
  /\ mother.mesh = "gltf"
  /\ mother.position = [MotherStart EXCEPT !.x = MotherTargetX]
  /\ lastOp.op # "frame"

\* a step of one of the handlers that the bridge is no business of
BridgeBystander ==
  \/ SwitchToMotherView
  \/ SwitchToChildView
  \/ OrbitDrag
  \/ Resize
  \/ OrbitReenable
  \/ LoadMotherSucceeds
  \/ LoadMotherFails
  \/ LoadChildSucceeds
  \/ LoadChildFails
  \/ Tick
  \/ (Frame /\ Len(BridgeTweens(raf)) = 0)

\* C15: the view switches to mother and child, frames without a bridge tween
\* (camera tween frames, the UI poll), load callbacks and resizes leave the
\* bridge as it is; isAligned changes only in switchToEmotionalView; a segment
\* moves only in a frame that runs a bridge tween, and only in z; and a bridge
\* tween is started only by a click on the trigger button whose check passed.
C15_BridgeMutatedOnlyByAlignAndTrigger ==
  [][/\ BridgeBystander => bridge' = bridge
     /\ bridge'.isAligned # bridge.isAligned => SwitchToEmotionalView
     /\ (bridge'.left # bridge.left \/ bridge'.right # bridge.right) =>
          /\ Frame
          /\ Len(BridgeTweens(raf)) > 0
          /\ bridge'.left = [bridge.left EXCEPT !.z = bridge'.left.z]
          /\ bridge'.right = [bridge.right EXCEPT !.z = bridge'.right.z]
     /\ Len(BridgeTweens(raf')) > Len(BridgeTweens(raf)) =>
          /\ ClickTriggerBridge
          /\ IsNearEmotionalView(TriggerThreshold, World) \/ bridge.isAligned]_vars

\* the bridge, aligned and moved by a trigger, has been through an accepted
\* switch to the child view
C15_Witness ==
  /\ lastOp = [op |-> "view", arg |-> "child", done |-> TRUE]
  /\ bridge.isAligned
  /\ bridge.left.z > LeftBridgeStart.z
  /\ bridge.right.z > RightBridgeStart.z

Segments == {"left", "right"}

\* the bridge tweens on a segment, oldest first
TweensOn(queue, segment) ==
  SelectSeq(queue, LAMBDA cb : cb.kind = "bridge" /\ cb.obj = segment)

\* the z a bridge tween writes at its age
WrittenZ(cb) ==
  cb.start.z + ((cb.target.z - cb.start.z) * EaseProgress(cb.age, BridgeDuration)) \div 1000

\* C16: a trigger that succeeds while a bridge tween is running leaves that
\* tween in the queue and starts, on each segment, another one from the
\* segment's position at that moment to 0.3 further along z; in every frame a
\* segment ends at the z written by the tween started last on it; and when
\* that tween completes no tween is left on the segment, which rests at the
\* last tween's target.
C16_OverlappingTriggersLastWriteWins ==
  [][/\ (ClickTriggerBridge /\ bridge.isAligned) =>
          \A seg \in Segments :
            LET old == TweensOn(raf, seg)
                new == TweensOn(raf', seg)
            IN /\ Len(new) = Len(old) + 1
               /\ SubSeq(new, 1, Len(old)) = old
               /\ new[Len(new)].start = bridge[seg]
               /\ new[Len(new)].target = [z |-> bridge[seg].z + BridgeOffset]
     /\ Frame =>
          \A seg \in Segments :
            LET on == TweensOn(raf, seg)
            IN Len(on) > 0 =>
                 /\ bridge'[seg].z = WrittenZ(on[Len(on)])
                 /\ on[Len(on)].age >= BridgeDuration =>
                      /\ Len(TweensOn(raf', seg)) = 0
                      /\ bridge'[seg].z = on[Len(on)].start.z + BridgeOffset]_vars

\* two triggers overlapped: the second found the segments half way, at 0.15,
\* and the bridge has come to rest at 0.45
C16_Witness ==
  /\ lastOp = [op |-> "frame", arg |-> "raf", done |-> TRUE]
  /\ Len(BridgeTweens(raf)) = 0
  /\ bridge.left.z = LeftBridgeStart.z + 15 + BridgeOffset
  /\ bridge.right.z = RightBridgeStart.z + 15 + BridgeOffset

\* the world after one call of the closure of callback i
After(i, w) == RunCallback(raf[i], w).w

\* the last callback of its kind on its object in the queue
LastOfItsKind(i) ==
  \A j \in (i + 1)..Len(raf) : ~(raf[j].kind = raf[i].kind /\ raf[j].obj = raf[i].obj)

\* C17: a call of a camera tween's closure changes only the camera (position,
\* look-at point, isAnimating), one of a bridge tween's only the z of its
\* segment, one of a character tween's only the x of its character; calls of
\* two tweens of different kinds give the same result in either order; and
\* in the frame in which a tween completes, being the last started on its
\* object, the value it animates is at that tween's own target.
C17_TweensOfDifferentKindsAreIndependent ==
  /\ [](\A i \in 1..Len(raf) :
          /\ raf[i].kind = "camera" =>
               [After(i, World) EXCEPT !.camPos = camPos, !.camLookAt = camLookAt,
                                       !.isAnimating = isAnimating] = World
          /\ raf[i].kind = "bridge" =>
               [After(i, World) EXCEPT !.bridge[raf[i].obj].z = bridge[raf[i].obj].z] = World
          /\ raf[i].kind = "char" =>
               [After(i, World) EXCEPT ![raf[i].obj].position.x =
                                          Character(raf[i].obj).position.x] = World
          /\ \A j \in 1..Len(raf) :
               (raf[i].kind # "app" /\ raf[j].kind # "app" /\ raf[i].kind # raf[j].kind) =>
                  After(j, After(i, World)) = After(i, After(j, World)))
  /\ [][Frame =>
          \A i \in 1..Len(raf) :
            (raf[i].kind # "app" /\ raf[i].age >= Duration(raf[i]) /\ LastOfItsKind(i)) =>
               /\ raf[i].kind = "camera" => camPos' = raf[i].target
               /\ raf[i].kind = "bridge" => bridge'[raf[i].obj].z = raf[i].target.z
               /\ \A who \in Characters :
                    (raf[i].kind = "char" /\ raf[i].obj = who
                       /\ Character(who).mesh = raf[i].mesh) =>
                       Character(who)'.position.x = raf[i].target.x]_vars

\* a frame has run with a camera tween, bridge tweens and character tweens
\* all in flight, each part way
C17_Witness ==
  /\ lastOp.op = "frame"
  /\ Len(CameraTweens(raf)) = 1
  /\ Len(BridgeTweens(raf)) = 2
  /\ Len(CharacterTweens(raf)) = 2
  /\ \A i \in 1..Len(raf) : raf[i].kind # "app" => raf[i].age > 0
  /\ camPos # Origin
  /\ bridge.left.z > LeftBridgeStart.z
  /\ mother.position.x > MotherStart.x

\* C18 as claimed: whenever a camera transition is in progress and
\* OrbitControls exist, they are disabled.
C18_OrbitDisabledDuringTransitions ==
  (isAnimating /\ hasOrbit) => ~orbitEnabled

\* the re-enable timer of an earlier click has fired during the transition
\* that a later click started: OrbitControls are enabled with the camera on
\* its way to the child preset
C18_Witness ==
  /\ lastOp = [op |-> "timer", arg |-> "orbit", done |-> TRUE]
  /\ hasOrbit
  /\ orbitEnabled
  /\ isAnimating
  /\ currentPreset = "child"
  /\ Len(CameraTweens(raf)) = 1
  /\ timers # {}

\* C19: every call of switchToEmotionalView leaves isAligned true, whether or
\* not its request for the emotional view was accepted, and a click on the
\* trigger button with isAligned true starts a tween on each bridge segment,
\* wherever the camera is.
C19_EmotionalViewAlignsEvenWhenIgnored ==
  [][/\ SwitchToEmotionalView => bridge'.isAligned
     /\ (ClickTriggerBridge /\ bridge.isAligned) =>
          /\ lastOp'.done
          /\ Len(BridgeTweens(raf')) = Len(BridgeTweens(raf)) + 2]_vars

\* two commands only, an ignored click on the emotional view button and a
\* click on the trigger button: the trigger succeeded with the camera on its
\* startup transition to the mother preset, far from the emotional one
C19_Witness ==
  /\ budget = MaxUserOps - 2
  /\ lastOp = [op |-> "trigger", arg |-> "bridge", done |-> TRUE]
  /\ bridge.isAligned
  /\ currentPreset = "mother"
  /\ isAnimating
  /\ ~IsNearEmotionalView(TriggerThreshold, World)
  /\ Len(BridgeTweens(raf)) = 2

\* C20 as claimed: at most one App instance is ever constructed.
C20_SingleAppInstance == page.apps <= 1

\* the listener of 'three-loaded' constructed an App and the fallback timer,
\* two seconds after DOMContentLoaded, has constructed another
C20_Witness ==
  /\ lastOp = [op |-> "boot", arg |-> "fallback", done |-> TRUE]
  /\ page.apps = 2
  /\ page.threeLoaded
  /\ ~page.listener

\* C21: isAligned starts false and no step turns it from true to false; a
\* frame that finds it true leaves a narrative state other than 'searching'
\* on the page, and from then on no step brings 'searching' back (the
\* narrative state is what the last frame derived: a frame is what the
\* browser paints).
C21_IsAlignedMonotonic ==
  /\ ~bridge.isAligned
  /\ currentState = "searching"
  /\ [][/\ bridge.isAligned => bridge'.isAligned
        /\ (Frame /\ bridge.isAligned) => currentState' # "searching"
        /\ currentState' # currentState => Frame
        /\ (bridge.isAligned /\ currentState # "searching") =>
             currentState' # "searching"]_vars

\* the bridge was aligned and its mechanism triggered, a frame has shown
\* 'aligning', and an accepted switch to the mother view has left it so
C21_Witness ==
  /\ lastOp = [op |-> "view", arg |-> "mother", done |-> TRUE]
  /\ budget = 0
  /\ bridge.isAligned
  /\ bridge.left.z > LeftBridgeStart.z
  /\ currentState = "aligning"
  /\ Len(CameraTweens(raf)) = 1

\* the characters as they stand are less than 5 apart
StandNear ==
  /\ BothCharactersPresent
  /\ DistanceSq(mother.position, child.position) < ReunionDistance * ReunionDistance

\* C22: once a frame has observed the characters less than 5 apart, no step
\* (view switch, trigger, load callback, frame) takes them 5 or more apart, so
\* every later frame observes the same and 'reunited' stays on display; a
\* character tween is started only by a trigger that finds both characters
\* set, and a character in the scene moves only in x, only towards its target
\* (-2 for the mother, 2 for the child), and never past it.
C22_ReunitedIsStable ==
  [][/\ sceneState.motherChildReunited =>
          /\ StandNear'
          /\ sceneState'.motherChildReunited
     /\ currentState = "reunited" => currentState' = "reunited"
     /\ Len(CharacterTweens(raf')) > Len(CharacterTweens(raf)) =>
          /\ ClickTriggerBridge
          /\ BothCharactersPresent
     /\ mother.mesh # NoMesh =>
          /\ mother' = [mother EXCEPT !.position.x = mother'.position.x]
          /\ mother.position.x <= mother'.position.x
          /\ mother'.position.x <= MotherTargetX
     /\ child.mesh # NoMesh =>
          /\ child' = [child EXCEPT !.position.x = child'.position.x]
          /\ child.position.x >= child'.position.x
          /\ child'.position.x >= ChildTargetX]_vars

\* the reunion was on display when the mechanism was triggered again: the
\* tweens of that trigger have run in a frame, with elapsed time, and the
\* frame has observed the reunion as before
C22_Witness ==
  /\ lastOp.op = "frame"
  /\ budget = 0
  /\ sceneState.motherChildReunited
  /\ currentState = "reunited"
  /\ \E i \in 1..Len(raf) :
       /\ raf[i].kind = "char"
       /\ raf[i].obj = "mother"
       /\ raf[i].start.x = MotherTargetX
       /\ raf[i].age > 0

====
